---- MODULE Spec2Model ----
(***************************************************************************)
(* A model of hlgen.py: ProjectMakefile._parse_makefile (the scan of the   *)
(* Makefile's lines into valid and invalid generator configurations, with  *)
(* the three anchor positions) and expand_template (the expansion of       *)
(* ${expr} placeholders against an environment).                           *)
(*                                                                         *)
(* Identifiers that the code handles character by character (generator     *)
(* names, which come from rstrip; variable names, which are lower-cased)   *)
(* are sequences of one-character strings.  An optional value (Python's    *)
(* None or a value) is the empty sequence or a one-element sequence.  A    *)
(* Python dict is the sequence of its [key, val] entries in insertion      *)
(* order.                                                                  *)
(***************************************************************************)
EXTENDS Integers, Sequences, FiniteSets, TLC

VARIABLES
    \* ---- ProjectMakefile._parse_makefile ----
    lines,                  \* self._lines
    gen_files,              \* what glob.glob(PROJ_DIR / '*.gen.cpp') returns (basenames)
    pc,                     \* "init", "scan", "done", "raised"
    i,                      \* the index of the line the scan is at
    saw_generator_comment,
    after_comment,
    cfg_start,
    cfg_end,
    last_cfg,
    configurations,
    invalid_configurations,
    generator2configs,
    next_id,                \* the identity given to the next BuildConfig object
    \* ---- expand_template, called once per skeleton string ----
    environ,                \* the env argument (a dict, in insertion order)
    kwargs,                 \* the keyword arguments (a dict)
    ncalls,                 \* the calls of expand_template begun so far
    tpc,                    \* "idle", "matching", "returned", "raised"
    template,               \* the pieces of the template re.sub has gone through
    env,                    \* the call's lower-cased environment
    funs,                   \* the call's expression cache
    items,                  \* what re.sub has collected: text and callback results
    result,                 \* what the call returned
    compile_log,            \* the cache keys this call handed to compile(), in order
    reuse_log,              \* the cache keys this call found in funs, in order
    compiled_before         \* the cache keys earlier calls handed to compile()

mvars == <<lines, gen_files, pc, i, saw_generator_comment, after_comment, cfg_start,
           cfg_end, last_cfg, configurations, invalid_configurations,
           generator2configs, next_id>>
tvars == <<environ, kwargs, ncalls, tpc, template, env, funs, items, result,
           compile_log, reuse_log, compiled_before>>
vars == <<mvars, tvars>>

\* ------------------------------------------------------------------ bounds

MaxLines == 3
MaxCalls == 3
MaxPieces == 3

\* --------------------------------------------------------- Python helpers

None == <<>>
Some(v) == <<v>>

\* x in d, d[k], d[k] = v for a dict: assignment to an existing key keeps its place.
DictHas(d, k) == \E n \in 1..Len(d) : d[n].key = k
DictGet(d, k) == d[CHOOSE n \in 1..Len(d) : d[n].key = k].val
DictSetDefault(d, k, v) ==
    IF DictHas(d, k) THEN d ELSE Append(d, [key |-> k, val |-> v])
DictSet(d, k, v) ==
    IF DictHas(d, k)
    THEN [n \in 1..Len(d) |-> IF d[n].key = k THEN [key |-> k, val |-> v] ELSE d[n]]
    ELSE Append(d, [key |-> k, val |-> v])
DictKeys(d) == {d[n].key : n \in 1..Len(d)}

\* x in list, by == (identity for BuildConfig, which defines no __eq__).
ListHas(l, x) == \E n \in 1..Len(l) : l[n] = x

\* list.remove(x): the first element equal to x is taken out.
ListRemoveKeep(l, x) == l
ListRemove(l, x) ==
    LET n == CHOOSE m \in 1..Len(l) : l[m] = x /\ \A k \in 1..(m - 1) : l[k] # x
    IN SubSeq(l, 1, n - 1) \o SubSeq(l, n + 1, Len(l))

\* str.rstrip(chars): trailing characters that are in the SET chars are removed.
RECURSIVE rstrip(_, _)
rstrip(s, chars) ==
    IF s = <<>> \/ s[Len(s)] \notin chars THEN s
    ELSE rstrip(SubSeq(s, 1, Len(s) - 1), chars)

Range(s) == {s[n] : n \in 1..Len(s)}

\* ------------------------------------------------------------- the inputs

GenSuffix == <<".", "g", "e", "n", ".", "c", "p", "p">>
Foo == <<"f", "o", "o">>
Bag == <<"b", "a", "g">>
Ba == <<"b", "a">>

\* The generator sources the project directory may hold.
Stems == {Foo, Bag}
FileLists ==
    {<<>>} \cup {<<a \o GenSuffix>> : a \in Stems}
           \cup {<<p[1] \o GenSuffix, p[2] \o GenSuffix>> :
                     p \in {q \in Stems \X Stems : q[1] # q[2]}}

\* A line of the Makefile, by what the scan reads of it: whether it is blank,
\* whether it starts with '# Configure generators', whether its stripped text starts
\* with '#', and the groups the pattern of from_makefile matches in it (m = None
\* when the pattern does not match; group 2 is None when the line names no
\* subconfiguration).
BlankLine == [blank |-> TRUE, header |-> FALSE, hash |-> FALSE, m |-> None]
HeaderLine == [blank |-> FALSE, header |-> TRUE, hash |-> TRUE, m |-> None]
CommentLine == [blank |-> FALSE, header |-> FALSE, hash |-> TRUE, m |-> None]
TextLine == [blank |-> FALSE, header |-> FALSE, hash |-> FALSE, m |-> None]
CfgLine(g, s, v) ==
    [blank |-> FALSE, header |-> FALSE, hash |-> FALSE,
     m |-> Some([g1 |-> g, g2 |-> s, g3 |-> v])]
LineGens == {Foo, Ba}
LineSubs == {None, Some("opt")}
LineVals == {"1", "2"}
CfgLines == {CfgLine(g, s, v) : g \in LineGens, s \in LineSubs, v \in LineVals}
Lines == {BlankLine, HeaderLine, CommentLine, TextLine} \cup CfgLines
LineSeqs == UNION {[1..n -> Lines] : n \in 0..MaxLines}

\* ------------------------------------------------------------ BuildConfig

\* BuildConfig.__init__: None becomes '' in gen, subcfg and val.
BuildConfig(generator, config_name, value, source, id) ==
    [gen |-> IF generator = None THEN <<>> ELSE generator[1],
     subcfg |-> IF config_name = None THEN "" ELSE config_name[1],
     val |-> IF value = None THEN "" ELSE value[1],
     orig |-> source,
     id |-> id]

\* BuildConfig.from_makefile: None unless the pattern matches.
from_makefile(cfg, id) ==
    IF cfg.m = None THEN None
    ELSE Some(BuildConfig(Some(cfg.m[1].g1), cfg.m[1].g2, Some(cfg.m[1].g3), Some(cfg), id))

\* ---------------------------------------------------------- _parse_makefile

num_lines == Len(lines)

\* Lines 64-66: the table of valid generators, keyed by the stripped base name.
GenName(base) == rstrip(base, Range(GenSuffix))
RECURSIVE GenTable(_, _)
GenTable(files, table) ==
    IF files = <<>> THEN table
    ELSE GenTable(Tail(files), DictSet(table, GenName(Head(files)), <<>>))

\* Lines 53-68.
ParseInit ==
    /\ pc = "init"
    /\ saw_generator_comment' = FALSE
    /\ after_comment' = num_lines
    /\ cfg_start' = num_lines
    /\ cfg_end' = num_lines
    /\ configurations' = <<>>
    /\ invalid_configurations' = <<>>
    /\ generator2configs' = GenTable(gen_files, <<>>)
    /\ last_cfg' = num_lines
    /\ i' = 0
    /\ pc' = "scan"
    /\ UNCHANGED <<lines, gen_files, next_id>>
    /\ UNCHANGED tvars

\* Lines 87-97: what a configuration does to the two lists and the table. The
\* result's raised is TRUE when list.remove finds nothing to remove.
Record(config, valid, invalid, table) ==
    IF ~DictHas(table, config.gen)
    THEN [valid |-> valid, invalid |-> Append(invalid, config), table |-> table,
          raised |-> FALSE]
    ELSE LET of_gen == DictGet(table, config.gen)
             overrides == DictHas(of_gen, config.subcfg)
             old_config == DictGet(of_gen, config.subcfg)
             raises == overrides /\ ~ListHas(valid, old_config)
             valid1 == IF overrides /\ ~raises THEN ListRemove(valid, old_config)
                       ELSE valid
             invalid1 == IF overrides /\ ~raises THEN Append(invalid, old_config)
                         ELSE invalid
         IN IF raises
            THEN [valid |-> valid, invalid |-> invalid, table |-> table, raised |-> TRUE]
            ELSE [valid |-> Append(valid1, config),
                  invalid |-> invalid1,
                  table |-> DictSet(table, config.gen,
                                    DictSet(of_gen, config.subcfg, config)),
                  raised |-> FALSE]

\* Line 86: a configuration is recorded only while cfg_end is still unset.
Recording(end, config) == end = num_lines /\ config # None

\* Lines 100-101: the first line that is neither blank nor a configuration after
\* cfg_start is set ends the block.
BlockEnds(start, end, config) == start < num_lines /\ end = num_lines /\ config = None

\* Lines 71-101: the body of the loop, for line i.
ScanLine ==
    /\ pc = "scan"
    /\ i < num_lines
    /\ LET line == lines[i + 1]
           saw == saw_generator_comment \/ line.header
           config == from_makefile(line, next_id)
           start == IF cfg_start = num_lines /\ config # None THEN i ELSE cfg_start
           rec == Record(config[1], configurations, invalid_configurations,
                         generator2configs)
       IN IF line.blank
          THEN /\ after_comment' =
                      IF saw_generator_comment /\ after_comment = num_lines THEN i
                      ELSE after_comment
               /\ pc' = pc
               /\ UNCHANGED <<saw_generator_comment, cfg_start, cfg_end, last_cfg,
                              configurations, invalid_configurations,
                              generator2configs, next_id>>
          ELSE /\ saw_generator_comment' = saw
               /\ after_comment' =
                      IF saw /\ after_comment = num_lines /\ ~line.hash THEN i
                      ELSE after_comment
               /\ next_id' = IF config # None THEN next_id + 1 ELSE next_id
               /\ cfg_start' = start
               /\ IF Recording(cfg_end, config)
                  THEN /\ configurations' = rec.valid
                       /\ invalid_configurations' = rec.invalid
                       /\ generator2configs' = rec.table
                       /\ last_cfg' = IF rec.raised THEN last_cfg ELSE i
                       /\ pc' = IF rec.raised THEN "raised" ELSE pc
                       /\ cfg_end' = cfg_end
                  ELSE /\ UNCHANGED <<configurations, invalid_configurations,
                                      generator2configs, last_cfg>>
                       /\ pc' = pc
                       /\ cfg_end' = IF BlockEnds(start, cfg_end, config)
                                     THEN last_cfg + 1 ELSE cfg_end
    /\ i' = i + 1
    /\ UNCHANGED <<lines, gen_files>>
    /\ UNCHANGED tvars

\* Lines 104-107: a generator whose table is empty gets a default configuration,
\* one object in the table and another one in the list.
NeedsDefaultInverted(of_gen) == of_gen # <<>>
NeedsDefault(of_gen) == of_gen = <<>>
RECURSIVE InferDefaults(_, _, _, _)
InferDefaults(n, valid, table, id) ==
    IF n > Len(table) THEN [valid |-> valid, table |-> table, id |-> id]
    ELSE IF NeedsDefault(table[n].val)
         THEN InferDefaults(
                  n + 1,
                  Append(valid, BuildConfig(Some(table[n].key), Some(""), Some(""),
                                            None, id + 1)),
                  DictSet(table, table[n].key,
                          DictSet(table[n].val, "",
                                  BuildConfig(Some(table[n].key), Some(""), Some(""),
                                              None, id))),
                  id + 2)
         ELSE InferDefaults(n + 1, valid, table, id)

\* Lines 103-115, once the loop over the lines is over.
Finish ==
    /\ pc = "scan"
    /\ i = num_lines
    /\ LET r == InferDefaults(1, configurations, generator2configs, next_id)
       IN /\ configurations' = r.valid
          /\ generator2configs' = r.table
          /\ next_id' = r.id
    /\ pc' = "done"
    /\ UNCHANGED <<lines, gen_files, i, saw_generator_comment, after_comment,
                   cfg_start, cfg_end, last_cfg, invalid_configurations>>
    /\ UNCHANGED tvars

MInit ==
    /\ lines \in LineSeqs
    /\ gen_files \in FileLists
    /\ pc = "init"
    /\ i = 0
    /\ saw_generator_comment = FALSE
    /\ after_comment = 0
    /\ cfg_start = 0
    /\ cfg_end = 0
    /\ last_cfg = 0
    /\ configurations = <<>>
    /\ invalid_configurations = <<>>
    /\ generator2configs = <<>>
    /\ next_id = 1

\* ------------------------------------------- properties of _parse_makefile

Pair(c) == <<c.gen, c.subcfg>>
KnownGens == DictKeys(generator2configs)
Valid == Range(configurations)
Invalid == Range(invalid_configurations)

\* The lines that parse as a configuration, and the object built for each: the
\* n-th such line of the file is given the identity n.
IsCfg(n) == lines[n].m # None
CfgIndexes == {n \in 1..Len(lines) : IsCfg(n)}
IdOfLine(n) == Cardinality({k \in 1..n : IsCfg(k)})
ConfigOfLine(n) == from_makefile(lines[n], IdOfLine(n))[1]
Ids(l) == [n \in 1..Len(l) |-> l[n].id]
WithPair(l, p) == SelectSeq(l, LAMBDA c : Pair(c) = p)
\* The identities of the declarations of the pair p, in the order of the lines.
RECURSIVE DeclaredIds(_, _)
DeclaredIds(n, p) ==
    IF n = 0 THEN <<>>
    ELSE IF IsCfg(n) /\ Pair(ConfigOfLine(n)) = p
         THEN Append(DeclaredIds(n - 1, p), IdOfLine(n))
         ELSE DeclaredIds(n - 1, p)
DeclaredPairs == {Pair(ConfigOfLine(n)) : n \in CfgIndexes}
Front(l) == SubSeq(l, 1, Len(l) - 1)

\* C1: once _parse_makefile is over (defaults included), no two entries of the
\* valid configurations have the same (generator, subconfiguration) pair.
C1_Uniqueness ==
    pc = "done" =>
        \A a, b \in 1..Len(configurations) :
            a # b => Pair(configurations[a]) # Pair(configurations[b])

\* An override has taken place, a default was inferred, and several entries are valid.
C1_Witness ==
    /\ pc = "done"
    /\ Len(configurations) >= 2
    /\ \E c \in Invalid : c.gen \in KnownGens
    /\ \E c \in Valid : c.orig = None

\* C2: a pair with a known generator that is declared N > 1 times, wherever in
\* the file, ends with exactly one valid entry, its last declaration, and with
\* its other N - 1 declarations among the invalid ones in the order declared.
C2_OverrideComplete ==
    pc = "done" =>
        \A p \in DeclaredPairs :
            LET decl == DeclaredIds(Len(lines), p)
            IN (p[1] \in KnownGens /\ Len(decl) > 1) =>
                   /\ Ids(WithPair(configurations, p)) = <<decl[Len(decl)]>>
                   /\ Ids(WithPair(invalid_configurations, p)) = Front(decl)

\* C3: every line that parses as a configuration of a generator that is not known
\* ends among the invalid configurations and not among the valid ones, wherever
\* in the file it is.
C3_UnknownRouted ==
    pc = "done" =>
        \A n \in CfgIndexes :
            ConfigOfLine(n).gen \notin KnownGens =>
                /\ ConfigOfLine(n) \in Invalid
                /\ ConfigOfLine(n) \notin Valid

\* C4: once _parse_makefile is over, a known generator that no line of the file
\* declares a configuration for has exactly one valid entry, and that entry has an
\* empty subconfiguration, an empty value and no source line.
Undeclared(g) == \A n \in CfgIndexes : ConfigOfLine(n).gen # g
OfGen(l, g) == SelectSeq(l, LAMBDA c : c.gen = g)
C4_DefaultSynthesis ==
    pc = "done" =>
        \A g \in KnownGens :
            Undeclared(g) =>
                /\ Len(OfGen(configurations, g)) = 1
                /\ OfGen(configurations, g)[1].subcfg = ""
                /\ OfGen(configurations, g)[1].val = ""
                /\ OfGen(configurations, g)[1].orig = None

\* A known generator without declarations beside one with a valid declaration.
C4_Witness ==
    /\ pc = "done"
    /\ \E g \in KnownGens : Undeclared(g)
    /\ \E c \in Valid : c.orig # None

\* C7: the generators of the table are the names of the *.gen.cpp files with the
\* literal suffix .gen.cpp taken off, and nothing else.
WithoutSuffix(base) == SubSeq(base, 1, Len(base) - Len(GenSuffix))
C7_ExactSuffix ==
    pc # "init" => KnownGens = {WithoutSuffix(gen_files[n]) : n \in 1..Len(gen_files)}

\* C8: in a file with a configuration line, cfg_end ends as last_cfg + 1, also
\* when only blank lines follow the configurations.
C8_BlockEnd ==
    (pc = "done" /\ CfgIndexes # {}) => cfg_end = last_cfg + 1

\* C10: after every line of the scan and after the defaults, the pairs claimed in
\* generator2configs are the pairs of the valid configurations, the table holds
\* for each pair the value of its valid entry, and no valid entry is invalid too.
TablePairs ==
    UNION {{<<g, s>> : s \in DictKeys(DictGet(generator2configs, g))} : g \in KnownGens}
C10_InSync ==
    pc \in {"scan", "done"} =>
        /\ TablePairs = {Pair(c) : c \in Valid}
        /\ \A c \in Valid :
               DictGet(DictGet(generator2configs, c.gen), c.subcfg).val = c.val
        /\ Valid \cap Invalid = {}

\* In the middle of the scan, after an override that changed the value of a pair.
C10_Witness ==
    /\ pc = "scan"
    /\ i < num_lines
    /\ \E c \in Invalid : \E d \in Valid : Pair(c) = Pair(d) /\ c.val # d.val

\* ---------------------------------------------------------- expand_template
\* The ast module is that of the Python the source is written for (3.6, 3.7), where
\* ast.arguments takes the four fields line 148 gives it.

\* Python values: a string, an int, a bool or None.
PyStrVal(x) == [t |-> "str", v |-> x]
PyInt(x) == [t |-> "int", v |-> x]
PyBool(x) == [t |-> "bool", v |-> x]
PyNone == [t |-> "none", v |-> 0]

\* str(x).
PyStr(x) ==
    CASE x.t = "str" -> x.v
      [] x.t = "int" -> ToString(x.v)
      [] x.t = "bool" -> (IF x.v THEN "True" ELSE "False")
      [] x.t = "none" -> "None"

\* str.lower(), a character at a time.
UpperCase == <<"A", "B", "C", "D", "E", "F", "G", "H", "I", "J", "K", "L", "M",
               "N", "O", "P", "Q", "R", "S", "T", "U", "V", "W", "X", "Y", "Z">>
LowerCase == <<"a", "b", "c", "d", "e", "f", "g", "h", "i", "j", "k", "l", "m",
               "n", "o", "p", "q", "r", "s", "t", "u", "v", "w", "x", "y", "z">>
LowerChar(c) ==
    IF \E k \in 1..Len(UpperCase) : UpperCase[k] = c
    THEN LowerCase[CHOOSE k \in 1..Len(UpperCase) : UpperCase[k] = c]
    ELSE c
lower(s) == [k \in 1..Len(s) |-> LowerChar(s[k])]

\* The expressions of the placeholders, as ast.parse returns them: a name, a
\* constant, or an operator on two of these. Unparsable is source text that
\* ast.parse rejects.
Name(id) == [op |-> "Name", id |-> id, n |-> 0, s |-> ""]
Num(n) == [op |-> "Num", id |-> <<>>, n |-> n, s |-> ""]
Str(x) == [op |-> "Str", id |-> <<>>, n |-> 0, s |-> x]
Unparsable == [op |-> "Unparsable", id |-> <<>>, n |-> 0, s |-> ""]
Add(l, r) == [op |-> "Add", l |-> l, r |-> r]
Eq(l, r) == [op |-> "Eq", l |-> l, r |-> r]
IsAtom(e) == e.op \in {"Name", "Num", "Str"}

VarUpper == <<"N">>
VarLower == <<"n">>
Exprs ==
    {Name(VarUpper), Name(VarLower), Add(Num(1), Num(1)), Add(Name(VarLower), Str("x")),
     Add(Name(VarLower), Num(1)), Eq(Name(VarLower), Str("W")), Unparsable}
Texts == {"Hello "}

\* A piece of a template: the text between two matches of \${([^}]+)}, or a match.
TextPiece(x) == [ph |-> FALSE, text |-> x, expr |-> Unparsable]
Placeholder(e) == [ph |-> TRUE, text |-> "", expr |-> e]

\* The dicts expand_template is called with.
EnvKeys == {VarUpper, VarLower}
EnvVals == {PyStrVal(""), PyStrVal("W")}
Environs == {<<>>} \cup {<<[key |-> k, val |-> v]>> : k \in EnvKeys, v \in EnvVals}
Kwargs == {<<>>, <<[key |-> VarUpper, val |-> PyStrVal("K")]>>}

\* Lines 123-126: the keys of env, then those of kwargs, lower-cased into one dict.
RECURSIVE LowerInto(_, _)
LowerInto(d, into) ==
    IF d = <<>> THEN into
    ELSE LowerInto(Tail(d), DictSet(into, lower(Head(d).key), Head(d).val))
BuildEnv(e, kw) == LowerInto(kw, LowerInto(e, <<>>))

\* get_names (lines 130-136): the names the expression loads, lower-cased; the
\* nodes of the expression are lower-cased on the way.
get_names(e) ==
    IF e.op = "Name" THEN {lower(e.id)}
    ELSE IF IsAtom(e) THEN {}
    ELSE (IF e.l.op = "Name" THEN {lower(e.l.id)} ELSE {}) \cup
         (IF e.r.op = "Name" THEN {lower(e.r.id)} ELSE {})
LowerNames(e) ==
    IF e.op = "Name" THEN Name(lower(e.id))
    ELSE IF IsAtom(e) THEN e
    ELSE [e EXCEPT !.l = IF e.l.op = "Name" THEN Name(lower(e.l.id)) ELSE e.l,
                   !.r = IF e.r.op = "Name" THEN Name(lower(e.r.id)) ELSE e.r]

\* ast.dump(expression), on the expression as parsed (line 139).
CacheKey(e) == e

\* Lines 140-141: the cache is asked first.
NeverCached(cache, key) == FALSE
Cached(cache, key) == DictHas(cache, key)

\* Lines 143-155: the compiled lambda and its parameters.
Compile(e) == [body |-> LowerNames(e), names |-> get_names(e)]

\* Line 164: str(env.get(name)) or ''.
ResolveArgOrFirst(environment, name) ==
    IF DictHas(environment, name) THEN PyStr(DictGet(environment, name)) ELSE ""
ResolveArg(environment, name) ==
    LET got == IF DictHas(environment, name) THEN DictGet(environment, name) ELSE PyNone
        text == PyStr(got)
    IN IF text = "" THEN "" ELSE text

\* Line 165: f(*args). The result is [ok, val]; ok is FALSE when the call raises.
EvalAtom(a, args) ==
    CASE a.op = "Name" -> PyStrVal(args[a.id])
      [] a.op = "Num" -> PyInt(a.n)
      [] a.op = "Str" -> PyStrVal(a.s)
Apply(f, args) ==
    IF IsAtom(f.body) THEN [ok |-> TRUE, val |-> EvalAtom(f.body, args)]
    ELSE LET l == EvalAtom(f.body.l, args)
             r == EvalAtom(f.body.r, args)
         IN CASE f.body.op = "Eq" ->
                     [ok |-> TRUE, val |-> PyBool(l.t = r.t /\ l.v = r.v)]
              [] f.body.op = "Add" /\ l.t = "str" /\ r.t = "str" ->
                     [ok |-> TRUE, val |-> PyStrVal(l.v \o r.v)]
              [] f.body.op = "Add" /\ l.t = "int" /\ r.t = "int" ->
                     [ok |-> TRUE, val |-> PyInt(l.v + r.v)]
              [] OTHER -> [ok |-> FALSE, val |-> PyNone]

\* expand (lines 159-165) on an expression that parses, with the cache as it is.
Expand(e, cache, environment) ==
    LET key == CacheKey(e)
        hit == Cached(cache, key)
        fn == IF hit THEN DictGet(cache, key) ELSE Compile(e)
        args == [nm \in fn.names |-> ResolveArg(environment, nm)]
    IN [hit |-> hit, key |-> key,
        cache |-> IF hit THEN cache ELSE DictSet(cache, key, fn),
        out |-> Apply(fn, args)]

\* The join that ends re.sub: every collected item has to be a str.
RECURSIVE Join(_)
Join(l) == IF l = <<>> THEN "" ELSE Head(l).v \o Join(Tail(l))
AllStr(l) == \A k \in 1..Len(l) : l[k].t = "str"

\* Lines 123-128: a call of expand_template starts (init_from_skeleton makes one
\* per file name and one per file content, lines 293 and 295).
BeginCall ==
    /\ tpc \in {"idle", "returned"}
    /\ ncalls < MaxCalls
    /\ ncalls' = ncalls + 1
    /\ env' = BuildEnv(environ, kwargs)
    /\ funs' = <<>>
    /\ template' = <<>>
    /\ items' = <<>>
    /\ result' = None
    /\ compiled_before' = compiled_before \cup Range(compile_log)
    /\ compile_log' = <<>>
    /\ reuse_log' = <<>>
    /\ tpc' = "matching"
    /\ UNCHANGED <<environ, kwargs>>
    /\ UNCHANGED mvars

\* Line 168: re.sub copies the text before the next match.
CopyText ==
    /\ tpc = "matching"
    /\ Len(template) < MaxPieces
    /\ \E x \in Texts :
           /\ template' = Append(template, TextPiece(x))
           /\ items' = Append(items, PyStrVal(x))
    /\ UNCHANGED <<environ, kwargs, ncalls, tpc, env, funs, result, compile_log,
                   reuse_log, compiled_before>>
    /\ UNCHANGED mvars

\* Line 168: re.sub calls expand for the next match and keeps what it returns;
\* an exception of ast.parse or of the compiled lambda ends the call.
ExpandMatch ==
    /\ tpc = "matching"
    /\ Len(template) < MaxPieces
    /\ \E e \in Exprs :
           /\ template' = Append(template, Placeholder(e))
           /\ IF e = Unparsable
              THEN /\ tpc' = "raised"
                   /\ UNCHANGED <<funs, items, compile_log, reuse_log>>
              ELSE LET r == Expand(e, funs, env)
                   IN /\ funs' = r.cache
                      /\ compile_log' = IF r.hit THEN compile_log
                                        ELSE Append(compile_log, r.key)
                      /\ reuse_log' = IF r.hit THEN Append(reuse_log, r.key)
                                      ELSE reuse_log
                      /\ items' = IF r.out.ok THEN Append(items, r.out.val) ELSE items
                      /\ tpc' = IF r.out.ok THEN tpc ELSE "raised"
    /\ UNCHANGED <<environ, kwargs, ncalls, env, result, compiled_before>>
    /\ UNCHANGED mvars

\* Line 168: no match is left; re.sub joins what it collected, which raises a
\* TypeError when an item is no str.
Return ==
    /\ tpc = "matching"
    /\ IF AllStr(items)
       THEN tpc' = "returned" /\ result' = Some(Join(items))
       ELSE tpc' = "raised" /\ result' = None
    /\ UNCHANGED <<environ, kwargs, ncalls, template, env, funs, items, compile_log,
                   reuse_log, compiled_before>>
    /\ UNCHANGED mvars

\* ------------------------------------------- properties of expand_template

\* What the expression of a placeholder evaluates to in the call's environment.
ValueOf(e) ==
    Apply(Compile(e), [nm \in get_names(e) |-> ResolveArg(env, nm)])
HasValue(piece) == piece.expr # Unparsable /\ ValueOf(piece.expr).ok
\* The template with every placeholder replaced by the string form of its value.
RECURSIVE Stringified(_)
Stringified(t) ==
    IF t = <<>> THEN ""
    ELSE (IF Head(t).ph THEN PyStr(ValueOf(Head(t).expr).val) ELSE Head(t).text)
         \o Stringified(Tail(t))

\* C5: a call fails only on a placeholder whose expression does not parse or does
\* not evaluate, and what it returns is the template with every placeholder
\* replaced by the string form of its value, whatever the type of the value.
C5_Stringified ==
    /\ tpc = "raised" => \E k \in 1..Len(template) : template[k].ph /\ ~HasValue(template[k])
    /\ tpc = "returned" => result = Some(Stringified(template))

\* C6: a placeholder that is one variable name expands to "None" when the
\* lower-cased environment has no such variable, and to the empty string when it
\* has it with the empty string as its value.
C6_MissingIsNone ==
    tpc \in {"matching", "returned"} =>
        \A k \in 1..Len(template) :
            (template[k].ph /\ template[k].expr.op = "Name") =>
                LET name == lower(template[k].expr.id)
                IN /\ ~DictHas(env, name) => items[k] = PyStrVal("None")
                   /\ (DictHas(env, name) /\ DictGet(env, name) = PyStrVal(""))
                          => items[k] = PyStrVal("")

\* The template ${N} was expanded in an empty environment.
C6_Witness ==
    /\ tpc = "returned"
    /\ template = <<Placeholder(Name(VarUpper))>>
    /\ env = <<>>
    /\ result = Some("None")

NoDuplicates(l) == \A a, b \in 1..Len(l) : a # b => l[a] # l[b]
TIdle ==
    /\ environ = <<>>
    /\ kwargs = <<>>
    /\ ncalls = 0
    /\ tpc = "idle"
    /\ template = <<>>
    /\ env = <<>>
    /\ funs = <<>>
    /\ items = <<>>
    /\ result = None
    /\ compile_log = <<>>
    /\ reuse_log = <<>>
    /\ compiled_before = {}

Init == MInit /\ TIdle

Next == ParseInit \/ ScanLine \/ Finish

Spec == Init /\ [][Next]_vars

\* The state of the variables of _parse_makefile while no Makefile is read.
MIdle ==
    /\ lines = <<>>
    /\ gen_files = <<>>
    /\ pc = "done"
    /\ i = 0
    /\ saw_generator_comment = FALSE
    /\ after_comment = 0
    /\ cfg_start = 0
    /\ cfg_end = 0
    /\ last_cfg = 0
    /\ configurations = <<>>
    /\ invalid_configurations = <<>>
    /\ generator2configs = <<>>
    /\ next_id = 1

TInit ==
    /\ environ \in Environs
    /\ kwargs \in Kwargs
    /\ ncalls = 0
    /\ tpc = "idle"
    /\ template = <<>>
    /\ env = <<>>
    /\ funs = <<>>
    /\ items = <<>>
    /\ result = None
    /\ compile_log = <<>>
    /\ reuse_log = <<>>
    /\ compiled_before = {}

InitTemplate == MIdle /\ TInit

NextTemplate == BeginCall \/ CopyText \/ ExpandMatch \/ Return

SpecTemplate == InitTemplate /\ [][NextTemplate]_vars

====
